---------------------------- MODULE Spec2Model ----------------------------
(***************************************************************************)
(* A model of the harmonium program: the sensor thread and the mpsc        *)
(* channel it feeds (sensor.rs, main.rs), the frame loop's drain of that   *)
(* channel (app.rs), the pressed-key tracker (keymap.rs) and the bellows   *)
(* filter pipeline (bellows.rs).                                           *)
(*                                                                         *)
(* Each component has its own specification over the shared variables:     *)
(*   SpecDrain    drain_sensor_messages fed by an arbitrary sender         *)
(*   SpecSensor   the sensor thread composed with the frame loop           *)
(*   SpecKeys     PressedKeys under arbitrary key_down / key_up calls      *)
(*   SpecBellows  BellowsState under arbitrary update / reset calls        *)
(*   SpecBellowsTuned  the same with the envelope sliders moved            *)
(*   SpecAudio    AudioEngine under arbitrary calls of its methods         *)
(*   SpecAppKeys, SpecApp  the app's keyboard, key map and audio widgets   *)
(*   SpecFrame    HarmoniumApp::ui frame by frame with the sample loop     *)
(* The variables of the other components are held at their initial values. *)
(*                                                                         *)
(* Option<T> is modelled as a sequence: <<>> is None, <<x>> is Some(x).    *)
(* The relay specifications count time in clock ticks; the bellows         *)
(* specification takes Instants as integers in microseconds.               *)
(***************************************************************************)
EXTENDS Integers, Sequences, FiniteSets, TLC

VARIABLES
    \* ---- clock (Instant::now) ----
    now,
    \* ---- std::sync::mpsc channel (main.rs:9) ----
    chan,               \* messages sent and not yet received, oldest first
    rx_alive,           \* the Receiver (owned by HarmoniumApp) is not dropped
    \* ---- sensor thread (sensor.rs) ----
    pc_p,               \* position of the sensor thread
    p_msg,              \* the SensorMsg built and about to be sent (Option)
    n_stream,           \* samples the upstream stream has yielded so far
    \* ---- HarmoniumApp (app.rs): the fields the drain writes ----
    pc_c,               \* position of the frame loop
    sensor_status,
    sensor_error,
    latest_sample,
    last_sample_age_sec,
    \* ---- history of the relay (not program state) ----
    sent,               \* messages whose send returned Ok, in order
    folded,             \* messages the drain has matched on, in order
    \* ---- PressedKeys (keymap.rs) ----
    keys_down,
    key_to_note,
    call,               \* the last PressedKeys call: its name and arguments
    ret,                \* what that call returned (Option<NoteName>)
    \* ---- BellowsState (bellows.rs) ----
    params,
    prev_theta_deg,
    prev_t,
    speed_smooth,
    a,
    bellows_out,        \* the BellowsOutput the last update returned
    bcall,              \* the last BellowsState call: its name and arguments
    \* ---- AudioEngine (audio.rs) ----
    active,             \* the HashMap note -> Sink, as a set of entries
    bellows_a,
    \* ---- HarmoniumApp (app.rs): keyboard, audio and input mode ----
    app_keymap,         \* the field keymap: Option<KeyMap>
    keymap_error,       \* Option<String>
    audio_some,         \* whether the app holds an AudioEngine
    audio_error,        \* Option<String>
    audio_enabled,
    fake_enabled,
    acall,              \* the last step of the app: its name and arguments
    \* ---- history of the keyboard (not program state) ----
    press_ret,          \* per key, what the press being held returned
    \* ---- history of the frame (not program state) ----
    last_update         \* the latest sample at the last update_bellows call,
                        \* and whether that call fed the same sample again

chanVars    == <<chan, rx_alive>>
prodVars    == <<pc_p, p_msg, n_stream>>
slotVars    == <<sensor_status, sensor_error, latest_sample>>
consVars    == <<pc_c, sensor_status, sensor_error, latest_sample, last_sample_age_sec>>
histVars    == <<sent, folded>>
relayVars   == <<now, chan, rx_alive, pc_p, p_msg, n_stream, pc_c, sensor_status,
                 sensor_error, latest_sample, last_sample_age_sec, sent, folded>>
keyVars     == <<keys_down, key_to_note, call, ret>>
bellowsVars == <<params, prev_theta_deg, prev_t, speed_smooth, a, bellows_out, bcall>>
audioVars   == <<active, bellows_a>>
appVars     == <<active, bellows_a, app_keymap, keymap_error, audio_some, audio_error,
                 audio_enabled, fake_enabled, acall, press_ret, last_update>>
vars        == <<relayVars, keyVars, bellowsVars, appVars>>

None    == <<>>
Some(x) == <<x>>

-----------------------------------------------------------------------------
(* Bounds of the model.                                                    *)

\* The clock runs from 0 to MaxNow ticks in the relay specifications.
MaxNow == 2
\* The upstream sample stream yields at most MaxSamples samples, then ends.
MaxSamples == 3
\* The arbitrary sender of SpecDrain sends at most MaxMsgs messages.
MaxMsgs == 4

\* PressedKeys is driven with the first MaxKeys keys of KeyList.
MaxKeys == 2

\* BellowsState is driven with the first MaxTimes instants of TimeGrid.
MaxTimes == 6

\* Angles the sensor reports (degrees).
Thetas == {10, 20}

-----------------------------------------------------------------------------
(* SensorMsg (sensor.rs:13-18) and the texts the program sends.            *)

StatusMsg(s)  == [kind |-> "Status", text |-> s]
ErrorMsg(e)   == [kind |-> "Error", text |-> e]
SampleMsg(th, t) == [kind |-> "Sample", sample |-> [theta_deg |-> th, t |-> t]]

StartingText  == "Starting sensor..."
ConnectedText == "Connected. device_source"
RuntimeErrText == "Failed to start Tokio runtime"
LoopErrText   == "Sensor loop stopped"

-----------------------------------------------------------------------------
(* The channel: std::sync::mpsc::channel, an unbounded FIFO queue.         *)

\* A variant for C4: a rendezvous channel of capacity 1 (mpsc::sync_channel(1)),
\* whose send waits while the queue is full.
SendMustWaitSync(queue) == Len(queue) >= 1

\* Whether a send has to wait for room: never, mpsc::channel() is unbounded.
SendMustWait(queue) == FALSE

\* A variant for C3: a channel that hands out the newest message first.
SendResultLifo(queue, alive, m) ==
    IF alive THEN <<TRUE, <<m>> \o queue>> ELSE <<FALSE, queue>>

\* Sender::send: Ok (enqueued) while the Receiver lives, Err otherwise.
\* The result is <<ok, queue'>>.
SendResult(queue, alive, m) ==
    IF alive THEN <<TRUE, Append(queue, m)>> ELSE <<FALSE, queue>>

-----------------------------------------------------------------------------
(* The frame loop's drain (app.rs:169-190).                                *)

\* A variant for C1: a sample slot that keeps the first sample it was given.
FoldMsgFirstSample(status, error, sample, m) ==
    CASE m.kind = "Status" -> <<m.text, None, sample>>
      [] m.kind = "Error"  -> <<status, Some(m.text), sample>>
      [] m.kind = "Sample" -> <<status, error, IF sample = None THEN Some(m.sample) ELSE sample>>

\* A variant for C2: an Error that also forgets the last sample.
FoldMsgErrorDropsSample(status, error, sample, m) ==
    CASE m.kind = "Status" -> <<m.text, None, sample>>
      [] m.kind = "Error"  -> <<status, Some(m.text), None>>
      [] m.kind = "Sample" -> <<status, error, Some(m.sample)>>

\* A variant for C16: an Error is shown as the status text and the error
\* slot is left alone.
FoldMsgErrorAsStatus(status, error, sample, m) ==
    CASE m.kind = "Status" -> <<m.text, None, sample>>
      [] m.kind = "Error"  -> <<m.text, error, sample>>
      [] m.kind = "Sample" -> <<status, error, Some(m.sample)>>

\* One iteration of the while-let loop: the match on the received message.
\* The result is the new <<sensor_status, sensor_error, latest_sample>>.
FoldMsg(status, error, sample, m) ==
    CASE m.kind = "Status" -> <<m.text, None, sample>>
      [] m.kind = "Error"  -> <<status, Some(m.text), sample>>
      [] m.kind = "Sample" -> <<status, error, Some(m.sample)>>

\* (Instant::now() - s.t).as_secs_f32(), or 0.0 without a sample, in ticks.
SampleAge(sample, t) ==
    IF sample = None THEN 0
    ELSE IF t >= sample[1].t THEN t - sample[1].t ELSE 0

\* try_recv returned Ok(msg): fold it and loop.
DrainRecv ==
    /\ pc_c = "drain"
    /\ rx_alive
    /\ chan # <<>>
    /\ LET m == Head(chan)
           r == FoldMsg(sensor_status, sensor_error, latest_sample, m)
       IN /\ sensor_status' = r[1]
          /\ sensor_error' = r[2]
          /\ latest_sample' = r[3]
          /\ folded' = Append(folded, m)
    /\ chan' = Tail(chan)
    /\ UNCHANGED <<pc_c, last_sample_age_sec, sent, rx_alive, now, prodVars>>
    /\ UNCHANGED <<keyVars, bellowsVars, appVars>>

\* A variant for C5: a blocking recv(), which on an empty channel returns
\* only once every Sender is gone.
DrainEmptyBlocking ==
    /\ pc_c = "drain"
    /\ rx_alive
    /\ chan = <<>>
    /\ pc_p = "done"
    /\ last_sample_age_sec' = SampleAge(latest_sample, now)
    /\ pc_c' = "rest"
    /\ UNCHANGED <<slotVars, histVars, chanVars, now, prodVars>>
    /\ UNCHANGED <<keyVars, bellowsVars, appVars>>

\* try_recv returned Err (Empty or Disconnected): the loop ends, the age of
\* the latest sample is recomputed and drain_sensor_messages returns.
DrainEmpty ==
    /\ pc_c = "drain"
    /\ rx_alive
    /\ chan = <<>>
    /\ last_sample_age_sec' = SampleAge(latest_sample, now)
    /\ pc_c' = "rest"
    /\ UNCHANGED <<slotVars, histVars, chanVars, now, prodVars>>
    /\ UNCHANGED <<keyVars, bellowsVars, appVars>>

\* The rest of HarmoniumApp::ui (app.rs:86-121): keyboard, bellows, audio and
\* drawing.  None of it writes the channel or the three slots; the next frame
\* starts with a drain.
FrameRest ==
    /\ pc_c = "rest"
    /\ pc_c' = "drain"
    /\ UNCHANGED <<slotVars, last_sample_age_sec, histVars, chanVars, now, prodVars>>
    /\ UNCHANGED <<keyVars, bellowsVars, appVars>>

\* The window closes between two frames: run_native returns and drops the
\* app with its Receiver; messages still queued are dropped with it.
AppExit ==
    /\ pc_c = "rest"
    /\ rx_alive
    /\ pc_c' = "exited"
    /\ rx_alive' = FALSE
    /\ chan' = <<>>
    /\ UNCHANGED <<slotVars, last_sample_age_sec, histVars, now, prodVars>>
    /\ UNCHANGED <<keyVars, bellowsVars, appVars>>

\* Time passes.
Tick ==
    /\ now < MaxNow
    /\ now' = now + 1
    /\ UNCHANGED <<chanVars, prodVars, consVars, histVars>>
    /\ UNCHANGED <<keyVars, bellowsVars, appVars>>

-----------------------------------------------------------------------------
(* The sensor thread (sensor.rs:20-61).                                    *)

\* tokio::runtime::Runtime::new() succeeds or fails (sensor.rs:22-28).
RuntimeNew ==
    /\ pc_p = "rt"
    /\ \E ok \in BOOLEAN : pc_p' = IF ok THEN "open" ELSE "send_rt_err"
    /\ UNCHANGED <<p_msg, n_stream, chanVars, consVars, histVars, now>>
    /\ UNCHANGED <<keyVars, bellowsVars, appVars>>

\* booklid_rust::open(hz).await? succeeds or makes run_sensor_loop return
\* the error to spawn_sensor_thread (sensor.rs:42, 34).
DeviceOpen ==
    /\ pc_p = "open"
    /\ \E ok \in BOOLEAN : pc_p' = IF ok THEN "send_status" ELSE "send_loop_err"
    /\ UNCHANGED <<p_msg, n_stream, chanVars, consVars, histVars, now>>
    /\ UNCHANGED <<keyVars, bellowsVars, appVars>>

\* The effect of tx.send(m) on the channel and on the history.
DoSend(m) ==
    LET r == SendResult(chan, rx_alive, m)
    IN /\ chan' = r[2]
       /\ sent' = IF r[1] THEN Append(sent, m) ELSE sent

\* let _ = tx.send(Error("Failed to start Tokio runtime")); return
SendRuntimeError ==
    /\ pc_p = "send_rt_err"
    /\ ~SendMustWait(chan)
    /\ DoSend(ErrorMsg(RuntimeErrText))
    /\ pc_p' = "done"
    /\ UNCHANGED <<p_msg, n_stream, rx_alive, consVars, folded, now>>
    /\ UNCHANGED <<keyVars, bellowsVars, appVars>>

\* A variant for C22: after reporting that the device could not be opened the
\* thread goes on to announce a connection.
SendLoopErrorGoesOn ==
    /\ pc_p = "send_loop_err"
    /\ ~SendMustWait(chan)
    /\ DoSend(ErrorMsg(LoopErrText))
    /\ pc_p' = "send_status"
    /\ UNCHANGED <<p_msg, n_stream, rx_alive, consVars, folded, now>>
    /\ UNCHANGED <<keyVars, bellowsVars, appVars>>

\* let _ = tx.send(Error("Sensor loop stopped")), then the thread ends
SendLoopError ==
    /\ pc_p = "send_loop_err"
    /\ ~SendMustWait(chan)
    /\ DoSend(ErrorMsg(LoopErrText))
    /\ pc_p' = "done"
    /\ UNCHANGED <<p_msg, n_stream, rx_alive, consVars, folded, now>>
    /\ UNCHANGED <<keyVars, bellowsVars, appVars>>

\* let _ = tx.send(Status("Connected...")); the stream is subscribed
SendStatus ==
    /\ pc_p = "send_status"
    /\ ~SendMustWait(chan)
    /\ DoSend(StatusMsg(ConnectedText))
    /\ pc_p' = "next"
    /\ UNCHANGED <<p_msg, n_stream, rx_alive, consVars, folded, now>>
    /\ UNCHANGED <<keyVars, bellowsVars, appVars>>

\* stream.next().await: the next sample, stamped with Instant::now(), or the
\* end of the stream, after which run_sensor_loop returns Ok(()).
StreamNext ==
    /\ pc_p = "next"
    /\ \/ /\ n_stream < MaxSamples
          /\ \E th \in Thetas : p_msg' = Some(SampleMsg(th, now))
          /\ n_stream' = n_stream + 1
          /\ pc_p' = "send_sample"
       \/ /\ pc_p' = "done"
          /\ UNCHANGED <<p_msg, n_stream>>
    /\ UNCHANGED <<chanVars, consVars, histVars, now>>
    /\ UNCHANGED <<keyVars, bellowsVars, appVars>>

\* A variant for C26: the result of the send is ignored and the loop goes on.
SendSampleGoesOn ==
    /\ pc_p = "send_sample"
    /\ ~SendMustWait(chan)
    /\ DoSend(p_msg[1])
    /\ pc_p' = "next"
    /\ p_msg' = None
    /\ UNCHANGED <<n_stream, rx_alive, consVars, folded, now>>
    /\ UNCHANGED <<keyVars, bellowsVars, appVars>>

\* if tx.send(msg).is_err() { break }
SendSample ==
    /\ pc_p = "send_sample"
    /\ ~SendMustWait(chan)
    /\ DoSend(p_msg[1])
    /\ pc_p' = IF SendResult(chan, rx_alive, p_msg[1])[1] THEN "next" ELSE "done"
    /\ p_msg' = None
    /\ UNCHANGED <<n_stream, rx_alive, consVars, folded, now>>
    /\ UNCHANGED <<keyVars, bellowsVars, appVars>>

ProducerSendStep == SendRuntimeError \/ SendLoopError \/ SendStatus \/ SendSample
ProducerAtSend ==
    pc_p \in {"send_rt_err", "send_loop_err", "send_status", "send_sample"}
ConsumerStep == DrainRecv \/ DrainEmpty \/ FrameRest

-----------------------------------------------------------------------------
(* An arbitrary holder of the Sender: any message, in any order.           *)

EnvMsgs ==
    {StatusMsg(s) : s \in {"A", "B"}} \cup {ErrorMsg(e) : e \in {"E1", "E2"}}
        \cup {SampleMsg(th, now) : th \in Thetas}

EnvSend ==
    /\ pc_p = "env"
    /\ Len(sent) < MaxMsgs
    /\ ~SendMustWait(chan)
    /\ \E m \in EnvMsgs : DoSend(m)
    /\ UNCHANGED <<prodVars, rx_alive, consVars, folded, now>>
    /\ UNCHANGED <<keyVars, bellowsVars, appVars>>

-----------------------------------------------------------------------------
(* KeyMap and PressedKeys (keymap.rs).                                     *)

\* The keys and the notes of the model.
KeyList == <<"z", "x", "c", "v">>
Keys    == {KeyList[i] : i \in 1..MaxKeys}
Notes   == {"c2", "d2"}

\* Every KeyMap over the keys: each key has a note or none.
KeyMaps == [Keys -> {None} \cup {Some(n) : n \in Notes}]

\* KeyMap::note_for_char
note_for_char(keymap, ch) == keymap[ch]

\* HashMap::insert and HashMap::remove on key_to_note.
MapInsert(f, k, v) == [x \in DOMAIN f \cup {k} |-> IF x = k THEN v ELSE f[x]]
MapRemove(f, k)    == [x \in DOMAIN f \ {k} |-> f[x]]
MapGet(f, k)       == IF k \in DOMAIN f THEN Some(f[k]) ELSE None
EmptyMap           == [x \in {} |-> "c2"]

\* A variant for C17: a repeated press returns nothing but records the note
\* the key has in the map it is given.
KeyDownRefreshesNote(down, k2n, ch, keymap) ==
    IF note_for_char(keymap, ch) = None
    THEN <<down \cup {ch}, k2n, None>>
    ELSE LET note == note_for_char(keymap, ch)[1]
         IN <<down \cup {ch}, MapInsert(k2n, ch, note),
              IF ch \in down THEN None ELSE Some(note)>>

\* A variant for C7: no check for a repeated press.
KeyDownNoRepeatCheck(down, k2n, ch, keymap) ==
    IF note_for_char(keymap, ch) = None
    THEN <<down \cup {ch}, k2n, None>>
    ELSE LET note == note_for_char(keymap, ch)[1]
         IN <<down \cup {ch}, MapInsert(k2n, ch, note), Some(note)>>

\* A variant for C8: the key is marked down only once its note is known.
KeyDownMappedOnly(down, k2n, ch, keymap) ==
    IF ch \in down THEN <<down, k2n, None>>
    ELSE IF note_for_char(keymap, ch) = None
    THEN <<down, k2n, None>>
    ELSE LET note == note_for_char(keymap, ch)[1]
         IN <<down \cup {ch}, MapInsert(k2n, ch, note), Some(note)>>

\* A variant for C6: a first press with a note records the note but does
\* not mark the key down.
KeyDownNoMarkDown(down, k2n, ch, keymap) ==
    IF ch \in down THEN <<down, k2n, None>>
    ELSE IF note_for_char(keymap, ch) = None
    THEN <<down \cup {ch}, k2n, None>>
    ELSE LET note == note_for_char(keymap, ch)[1]
         IN <<down, MapInsert(k2n, ch, note), Some(note)>>

\* PressedKeys::key_down (keymap.rs:68-80): the new keys_down, the new
\* key_to_note and the value returned.
KeyDownResult(down, k2n, ch, keymap) ==
    IF ch \in down THEN <<down, k2n, None>>
    ELSE IF note_for_char(keymap, ch) = None
    THEN <<down \cup {ch}, k2n, None>>
    ELSE LET note == note_for_char(keymap, ch)[1]
         IN <<down \cup {ch}, MapInsert(k2n, ch, note), Some(note)>>

\* A variant for C9: the recorded note is read but not removed.
KeyUpNoRemove(down, k2n, ch) == <<down \ {ch}, k2n, MapGet(k2n, ch)>>

\* PressedKeys::key_up (keymap.rs:84-87).
KeyUpResult(down, k2n, ch) ==
    <<down \ {ch}, MapRemove(k2n, ch), MapGet(k2n, ch)>>

\* A call of key_down with any key and any key map.  The call record keeps
\* the arguments and what the tracker held for the key when it was called.
KeyDown ==
    /\ \E ch \in Keys, keymap \in KeyMaps :
          LET r == KeyDownResult(keys_down, key_to_note, ch, keymap)
          IN /\ keys_down' = r[1]
             /\ key_to_note' = r[2]
             /\ ret' = r[3]
             /\ call' = [op |-> "key_down", ch |-> ch, keymap |-> keymap,
                         was_down |-> ch \in keys_down,
                         had_note |-> MapGet(key_to_note, ch)]
    /\ UNCHANGED <<relayVars, bellowsVars, appVars>>

\* A call of key_up with any key.
KeyUp ==
    /\ \E ch \in Keys :
          LET r == KeyUpResult(keys_down, key_to_note, ch)
          IN /\ keys_down' = r[1]
             /\ key_to_note' = r[2]
             /\ ret' = r[3]
             /\ call' = [op |-> "key_up", ch |-> ch,
                         was_down |-> ch \in keys_down,
                         had_note |-> MapGet(key_to_note, ch)]
    /\ UNCHANGED <<relayVars, bellowsVars, appVars>>

-----------------------------------------------------------------------------
(* The bellows pipeline (bellows.rs).                                      *)
(*                                                                         *)
(* f32 values are fixed-point integers: amplitudes and other values in     *)
(* [0,1] in units of 1/FX, speeds in units of 1/SPD deg/s, angles in whole *)
(* degrees, durations in microseconds.  Products are divided before they   *)
(* can leave the 32-bit range of the model checker's integers.             *)

FX  == 1000
SPD == 100
\* The resolution at which exp() is evaluated.
EXPFX == 10000
MicrosPerSec == 1000000

\* The sensor of the frame specification sends at most MaxFrameSamples
\* samples.
MaxFrameSamples == 2

\* The instants and the angles update() is called with.
TimeGrid == <<0, 1, 2, 16000, 1016000, 1032000, 1282000, 1298000, 2298000>>
Times    == {TimeGrid[i] : i \in 1..MaxTimes}
Angles   == {0, 1, 8}

\* floor(x * y / d) for x, y >= 0 and d > 0, without forming x * y.
MulDiv(x, y, d) == (x \div d) * y + ((x % d) * y) \div d

\* x * y / d rounded toward zero, for x of either sign.
MulDivSigned(x, y, d) == IF x >= 0 THEN MulDiv(x, y, d) ELSE -MulDiv(-x, y, d)

AbsVal(x) == IF x >= 0 THEN x ELSE -x
MaxOf(x, y) == IF x >= y THEN x ELSE y

\* BellowsParams::default (bellows.rs:26-37)
DefaultParams ==
    [deadzone_deg_per_s |-> 8 * SPD,
     vmax_deg_per_s     |-> 50 * SPD,
     gamma              |-> 2,
     ema_alpha          |-> (12 * FX) \div 100,
     attack_ms          |-> 250,
     release_ms         |-> 400]

\* BellowsOutput::default (bellows.rs:61-73)
DefaultOutput ==
    [dt_sec |-> 0, theta_deg |-> 0, omega_deg_per_s |-> 0, speed_raw |-> 0,
     speed_smooth |-> 0, a_target |-> 0, a |-> 0]

\* BellowsState::new (bellows.rs:88-96)
NewBellows(p) ==
    [params |-> p, prev_theta_deg |-> None, prev_t |-> None,
     speed_smooth |-> 0, a |-> 0]

\* fn clamp01 (bellows.rs:178-180)
clamp01(x) == IF x < 0 THEN 0 ELSE IF x > FX THEN FX ELSE x

\* fn ema (bellows.rs:184-186): prev + alpha * (input - prev)
ema(prev, input, alpha) == prev + MulDivSigned(input - prev, alpha, FX)

\* fn normalize_with_deadzone (bellows.rs:192-200).  The floor of vmax just
\* above the deadzone is one unit of speed.
normalize_with_deadzone(speed, deadzone, vmax) ==
    LET dead == MaxOf(deadzone, 0)
        maxv == MaxOf(vmax, dead + 1)
        x    == MulDivSigned(speed - dead, FX, maxv - dead)
    IN clamp01(x)

\* f32::powf for a whole exponent g >= 1.
RECURSIVE powf(_, _)
powf(x, g) == IF g <= 1 THEN x ELSE MulDivSigned(powf(x, g - 1), x, FX)

\* exp(-y) for y >= 0, both in units of 1/EXPFX: the Taylor polynomial of
\* degree 3 on [0, 1/8], and exp(-y) = exp(-y/2)^2 above.
RECURSIVE ExpNeg(_)
ExpNeg(y) ==
    IF 8 * y <= EXPFX
    THEN EXPFX - y + ((y * y) \div (2 * EXPFX)) - ((((y * y) \div EXPFX) * y) \div (6 * EXPFX))
    ELSE LET h == ExpNeg(y \div 2) IN (h * h) \div EXPFX

\* A variant for C10: the envelope moves by dt / tau of the distance (an
\* Euler step) instead of 1 - exp(-dt / tau).
envelope_follow_linear(current, target, dt_sec, attack_ms, release_ms) ==
    LET going_up == target > current
        ms       == IF going_up THEN attack_ms ELSE release_ms
    IN IF ms <= 0 THEN target
       ELSE LET step == MulDiv(dt_sec, EXPFX \div 1000, ms)
            IN current + MulDivSigned(target - current, step, EXPFX)

\* A variant for C19: the release time is used on the way up and the attack
\* time on the way down.
envelope_follow_swapped(current, target, dt_sec, attack_ms, release_ms) ==
    LET going_up == target > current
        ms       == IF going_up THEN release_ms ELSE attack_ms
    IN IF ms <= 0 THEN target
       ELSE LET step == EXPFX - ExpNeg(MulDiv(dt_sec, EXPFX \div 1000, ms))
            IN current + MulDivSigned(target - current, step, EXPFX)

\* fn envelope_follow (bellows.rs:206-218).  dt_sec / tau is
\* dt[us] / (1000 * ms), here in units of 1/EXPFX.
envelope_follow(current, target, dt_sec, attack_ms, release_ms) ==
    LET going_up == target > current
        ms       == IF going_up THEN attack_ms ELSE release_ms
    IN IF ms <= 0 THEN target
       ELSE LET step == EXPFX - ExpNeg(MulDiv(dt_sec, EXPFX \div 1000, ms))
            IN current + MulDivSigned(target - current, step, EXPFX)

\* A variant for C25: the distance between the two instants, whichever is
\* the later one.
DurationBetween(t, earlier) == IF t >= earlier THEN t - earlier ELSE earlier - t

\* Instant - Instant: the duration since the earlier instant, zero when the
\* right-hand instant is the later one.
DurationSince(t, earlier) == IF t >= earlier THEN t - earlier ELSE 0

\* A variant for C18: an early return reports the default amplitude and
\* smoothed speed instead of the stored ones.
EarlyOutputDefault(st, theta_deg) ==
    [DefaultOutput EXCEPT !.theta_deg = theta_deg]

\* The output of the two early returns of update (bellows.rs:110-114,
\* 121-125).
EarlyOutput(st, theta_deg) ==
    [DefaultOutput EXCEPT !.theta_deg = theta_deg, !.a = st.a,
                          !.speed_smooth = st.speed_smooth]

\* A variant for C11: the cold-start frame records the angle but not the
\* instant.
ColdStartAngleOnly(st, theta_deg, t) ==
    [st EXCEPT !.prev_theta_deg = Some(theta_deg)]

\* The engine after the cold-start frame (bellows.rs:107-108).
ColdStart(st, theta_deg, t) ==
    [st EXCEPT !.prev_theta_deg = Some(theta_deg), !.prev_t = Some(t)]

\* BellowsState::update (bellows.rs:102-165): the new state and the output.
update(st, theta_deg, t) ==
    IF st.prev_theta_deg = None \/ st.prev_t = None
    THEN [st  |-> ColdStart(st, theta_deg, t),
          out |-> EarlyOutput(st, theta_deg)]
    ELSE
    LET prev_theta == st.prev_theta_deg[1]
        dt_sec     == DurationSince(t, st.prev_t[1])
    IN IF dt_sec <= 1
       THEN [st |-> st, out |-> EarlyOutput(st, theta_deg)]
       ELSE
       LET d         == theta_deg - prev_theta
           speed_raw == MulDiv(MicrosPerSec * SPD, AbsVal(d), dt_sec)
           omega     == IF d >= 0 THEN speed_raw ELSE -speed_raw
           alpha     == clamp01(st.params.ema_alpha)
           smooth    == ema(st.speed_smooth, speed_raw, alpha)
           x         == normalize_with_deadzone(smooth, st.params.deadzone_deg_per_s,
                                                st.params.vmax_deg_per_s)
           gamma     == IF st.params.gamma <= 0 THEN 1 ELSE st.params.gamma
           a_target  == powf(x, gamma)
           new_a     == envelope_follow(st.a, a_target, dt_sec,
                                        st.params.attack_ms, st.params.release_ms)
       IN [st  |-> [st EXCEPT !.speed_smooth = smooth, !.a = new_a,
                              !.prev_theta_deg = Some(theta_deg), !.prev_t = Some(t)],
           out |-> [dt_sec |-> dt_sec, theta_deg |-> theta_deg,
                    omega_deg_per_s |-> omega, speed_raw |-> speed_raw,
                    speed_smooth |-> smooth, a_target |-> a_target, a |-> new_a]]

\* A variant for C24: reset forgets the instant but keeps the angle.
reset_keeps_angle(st) ==
    [st EXCEPT !.prev_t = None, !.speed_smooth = 0, !.a = 0]

\* A variant for C12: reset forgets to zero the amplitude.
reset_keeps_amplitude(st) ==
    [st EXCEPT !.prev_theta_deg = None, !.prev_t = None, !.speed_smooth = 0]

\* BellowsState::reset (bellows.rs:168-173)
reset(st) ==
    [st EXCEPT !.prev_theta_deg = None, !.prev_t = None, !.speed_smooth = 0, !.a = 0]

\* The engine as one value.
Bellows ==
    [params |-> params, prev_theta_deg |-> prev_theta_deg, prev_t |-> prev_t,
     speed_smooth |-> speed_smooth, a |-> a]

SetBellows(st) ==
    /\ params' = st.params
    /\ prev_theta_deg' = st.prev_theta_deg
    /\ prev_t' = st.prev_t
    /\ speed_smooth' = st.speed_smooth
    /\ a' = st.a

\* A call of update with any angle and any instant.
Update ==
    /\ \E theta_deg \in Angles, t \in Times :
          LET r == update(Bellows, theta_deg, t)
          IN /\ SetBellows(r.st)
             /\ bellows_out' = r.out
             /\ bcall' = [op |-> "update", theta_deg |-> theta_deg, t |-> t,
                          pre |-> Bellows]
    /\ UNCHANGED <<relayVars, keyVars, appVars>>

\* A call of reset.
Reset ==
    /\ SetBellows(reset(Bellows))
    /\ bcall' = [op |-> "reset", pre |-> Bellows]
    /\ UNCHANGED <<bellows_out, relayVars, keyVars, appVars>>

\* The positions the attack and release sliders are moved to (app.rs:258-259:
\* 0..=400 ms and 0..=1200 ms): the defaults, and either slider at 0.
EnvelopeChoices ==
    {<<DefaultParams.attack_ms, DefaultParams.release_ms>>,
     <<0, DefaultParams.release_ms>>,
     <<DefaultParams.attack_ms, 0>>}

\* The user moves the attack and release sliders between two frames.
SetParams ==
    /\ \E c \in EnvelopeChoices :
          /\ params' = [params EXCEPT !.attack_ms = c[1], !.release_ms = c[2]]
          /\ params' # params
    /\ bcall' = [op |-> "params", pre |-> Bellows]
    /\ UNCHANGED <<prev_theta_deg, prev_t, speed_smooth, a, bellows_out>>
    /\ UNCHANGED <<relayVars, keyVars, appVars>>

-----------------------------------------------------------------------------
(* AudioEngine (audio.rs).                                                 *)
(*                                                                         *)
(* active is the HashMap<String, Sink> as a set of entries [note, sink];   *)
(* a Sink is a number.  The sinks' volumes and the master gain are not     *)
(* part of the model.                                                      *)

ActiveNotes(act) == {e.note : e \in act}

\* Sink::try_new: a sink that is none of the sinks held, the lowest number
\* free.
NewSink(act) ==
    CHOOSE i \in 1..(Cardinality(act) + 1) :
        /\ \A e \in act : e.sink # i
        /\ \A j \in 1..(i - 1) : \E e \in act : e.sink = j

\* HashMap::insert: the entry of the key is replaced.
HashInsert(act, note, sink) ==
    {e \in act : e.note # note} \cup {[note |-> note, sink |-> sink]}

\* HashMap::remove
HashRemove(act, note) == {e \in act : e.note # note}

\* The outcome of the fallible steps of note_on: the sample file is found,
\* opened and decoded and the sink is created, or one of them fails.
OkText == "Ok"
NoteOnErrors ==
    {"No audio file found", "Failed to open", "Failed to decode", "Failed to create sink"}
NoteOnOutcomes == {OkText} \cup NoteOnErrors

\* A variant for C13: no check for a note that is already active.
note_on_unchecked(act, note, outcome) ==
    IF outcome # OkText THEN [active |-> act, result |-> outcome]
    ELSE [active |-> HashInsert(act, note, NewSink(act)), result |-> OkText]

\* A variant for C14: the entry is inserted before the fallible steps.
note_on_insert_first(act, note, outcome) ==
    IF note \in ActiveNotes(act) THEN [active |-> act, result |-> OkText]
    ELSE [active |-> HashInsert(act, note, NewSink(act)), result |-> outcome]

\* AudioEngine::note_on (audio.rs:69-103): the new map and the Result.
note_on(act, note, outcome) ==
    IF note \in ActiveNotes(act) THEN [active |-> act, result |-> OkText]
    ELSE IF outcome # OkText THEN [active |-> act, result |-> outcome]
    ELSE [active |-> HashInsert(act, note, NewSink(act)), result |-> OkText]

\* A variant for C21: note_off leaves the sink in the map.
note_off_keeps_sink(act, note) == act

\* AudioEngine::note_off (audio.rs:106-110)
note_off(act, note) == HashRemove(act, note)

\* AudioEngine::stop_all (audio.rs:113-117)
stop_all(act) == {}

\* AudioEngine::set_bellows (audio.rs:57-60): the new bellows_a.
set_bellows(x) == clamp01(x)

\* The amplitudes set_bellows is called with in the engine's own
\* specification.
BellowsValues == {0 - FX, 0, FX \div 2, FX, 2 * FX}

\* Calls of the engine's methods with any arguments.
AudioNoteOn ==
    /\ \E note \in Notes, outcome \in NoteOnOutcomes :
          LET r == note_on(active, note, outcome)
          IN /\ active' = r.active
             /\ acall' = [op |-> "note_on", note |-> note, result |-> r.result,
                          was_active |-> note \in ActiveNotes(active)]
    /\ UNCHANGED <<bellows_a, app_keymap, keymap_error, audio_some, audio_error,
                   audio_enabled, fake_enabled, press_ret, last_update>>
    /\ UNCHANGED <<relayVars, keyVars, bellowsVars>>

AudioNoteOff ==
    /\ \E note \in Notes :
          /\ active' = note_off(active, note)
          /\ acall' = [op |-> "note_off", note |-> note,
                       was_active |-> note \in ActiveNotes(active)]
    /\ UNCHANGED <<bellows_a, app_keymap, keymap_error, audio_some, audio_error,
                   audio_enabled, fake_enabled, press_ret, last_update>>
    /\ UNCHANGED <<relayVars, keyVars, bellowsVars>>

AudioStopAll ==
    /\ active' = stop_all(active)
    /\ acall' = [op |-> "stop_all"]
    /\ UNCHANGED <<bellows_a, app_keymap, keymap_error, audio_some, audio_error,
                   audio_enabled, fake_enabled, press_ret, last_update>>
    /\ UNCHANGED <<relayVars, keyVars, bellowsVars>>

AudioSetBellows ==
    /\ \E x \in BellowsValues :
          /\ bellows_a' = set_bellows(x)
          /\ acall' = [op |-> "set_bellows", value |-> x]
    /\ UNCHANGED <<active, app_keymap, keymap_error, audio_some, audio_error,
                   audio_enabled, fake_enabled, press_ret, last_update>>
    /\ UNCHANGED <<relayVars, keyVars, bellowsVars>>

-----------------------------------------------------------------------------
(* HarmoniumApp: the keyboard and the widgets that act on the key map and  *)
(* on the audio engine (app.rs).                                           *)

\* A key-map file: the first key and the second key of KeyList get the given
\* notes, every other key has none.
MapOf(zn, xn) ==
    [k \in Keys |-> IF k = KeyList[1] THEN zn ELSE IF k = KeyList[2] THEN xn ELSE None]

\* The contents a key-map file is loaded with: two keys with two notes, two
\* keys with the same note, and one key only.
MapFiles ==
    {MapOf(Some("c2"), Some("d2")), MapOf(Some("c2"), Some("c2")), MapOf(Some("d2"), None)}

\* The errors of KeyMap::load_from_file (keymap.rs:17-42).
KeymapErrors == {"Failed to read keymap file", "Failed to parse keymap JSON"}

\* The history of the frame before the first call of update_bellows.
NoUpdate == [sample |-> None, stalled |-> FALSE]

\* The history entry of a key that is not held.
NoPress == [note |-> None, on |-> None]

\* handle_keyboard, one Key event with pressed = true and repeat = false
\* (app.rs:343-357).  Events with repeat = true are skipped (app.rs:339-341)
\* and change nothing.
AppKeyPress ==
    /\ \E ch \in Keys, outcome \in NoteOnOutcomes :
          IF app_keymap = None
          THEN /\ UNCHANGED <<keys_down, key_to_note, active, audio_error, press_ret>>
               /\ acall' = [op |-> "key_press", ch |-> ch, note |-> None,
                            note_on |-> None]
          ELSE LET r        == KeyDownResult(keys_down, key_to_note, ch, app_keymap[1])
                   calls_on == r[3] # None /\ audio_enabled /\ audio_some
                   o        == note_on(active, r[3][1], outcome)
                   on       == IF calls_on THEN Some(o.result) ELSE None
               IN /\ keys_down' = r[1]
                  /\ key_to_note' = r[2]
                  /\ active' = IF calls_on THEN o.active ELSE active
                  /\ audio_error' = IF calls_on /\ o.result # OkText
                                    THEN Some(o.result) ELSE audio_error
                  /\ press_ret' = IF ch \in keys_down THEN press_ret
                                  ELSE [press_ret EXCEPT ![ch] = [note |-> r[3], on |-> on]]
                  /\ acall' = [op |-> "key_press", ch |-> ch, note |-> r[3],
                               note_on |-> on]
    /\ UNCHANGED <<call, ret, bellows_a, app_keymap, keymap_error, audio_some,
                   audio_enabled, fake_enabled, last_update>>
    /\ UNCHANGED <<relayVars, bellowsVars>>

\* handle_keyboard, one Key event with pressed = false (app.rs:358-365).
AppKeyRelease ==
    /\ \E ch \in Keys :
          LET r         == KeyUpResult(keys_down, key_to_note, ch)
              calls_off == r[3] # None /\ audio_some
          IN /\ keys_down' = r[1]
             /\ key_to_note' = r[2]
             /\ active' = IF calls_off THEN note_off(active, r[3][1]) ELSE active
             /\ press_ret' = [press_ret EXCEPT ![ch] = NoPress]
             /\ acall' = [op |-> "key_release", ch |-> ch, note |-> r[3],
                          note_off |-> calls_off, held |-> press_ret[ch]]
    /\ UNCHANGED <<call, ret, bellows_a, app_keymap, keymap_error, audio_some,
                   audio_error, audio_enabled, fake_enabled, last_update>>
    /\ UNCHANGED <<relayVars, bellowsVars>>

\* The button "Reload keymap.json" (app.rs:301-312).
ReloadKeymap ==
    /\ \/ \E m \in MapFiles : app_keymap' = Some(m) /\ keymap_error' = None
       \/ \E e \in KeymapErrors : app_keymap' = None /\ keymap_error' = Some(e)
    /\ acall' = [op |-> "reload"]
    /\ UNCHANGED <<active, bellows_a, audio_some, audio_error, audio_enabled,
                   fake_enabled, press_ret, last_update>>
    /\ UNCHANGED <<relayVars, keyVars, bellowsVars>>

\* The checkbox "Enable audio output" (app.rs:152).
ToggleAudioEnabled ==
    /\ audio_enabled' = ~audio_enabled
    /\ acall' = [op |-> "toggle_audio"]
    /\ UNCHANGED <<active, bellows_a, app_keymap, keymap_error, audio_some,
                   audio_error, fake_enabled, press_ret, last_update>>
    /\ UNCHANGED <<relayVars, keyVars, bellowsVars>>

\* The button "Stop all notes" (app.rs:162-166).
ClickStopAll ==
    /\ active' = IF audio_some THEN stop_all(active) ELSE active
    /\ acall' = [op |-> "stop_all"]
    /\ UNCHANGED <<bellows_a, app_keymap, keymap_error, audio_some, audio_error,
                   audio_enabled, fake_enabled, press_ret, last_update>>
    /\ UNCHANGED <<relayVars, keyVars, bellowsVars>>

-----------------------------------------------------------------------------
(* HarmoniumApp::ui, one frame step by step (app.rs:82-121).               *)
(*                                                                         *)
(* pc_c runs through "drain", "rest" (the drain has returned), "bellows",  *)
(* "audio" and "draw".  The frame specification runs the app without a key *)
(* map, so that handle_keyboard finds no note to start or stop.            *)

\* The length of a clock tick in microseconds: the Instant of tick n.
TickMicros == 16000
InstantOf(n) == n * TickMicros

\* The angle of the fake input at a tick (app.rs:200-206): the sine of
\* amplitude 30 degrees and 0.6 Hz rises by about 2 degrees per tick near
\* the start.
FakeAngle(n) == 2 * n

\* A variant for C20: the target amplitude is passed on instead of the
\* amplitude.
BellowsForAudioTarget(enabled, out) == IF ~enabled THEN 0 ELSE out.a_target

\* update_audio_from_bellows (app.rs:218-230): the value given to
\* set_bellows.
BellowsForAudio(enabled, out) == IF ~enabled THEN 0 ELSE out.a

\* The sensor thread in its loop (sensor.rs:48-58), already connected: the
\* next sample is stamped with Instant::now() and sent.
FrameSensorSend ==
    /\ pc_p = "next"
    /\ Len(sent) < MaxFrameSamples
    /\ ~SendMustWait(chan)
    /\ \E th \in Thetas : DoSend(SampleMsg(th, now))
    /\ UNCHANGED <<prodVars, rx_alive, consVars, folded, now>>
    /\ UNCHANGED <<keyVars, bellowsVars, appVars>>

\* handle_keyboard (app.rs:326-371) with no key map and no key held: a press
\* is not passed to PressedKeys and a release finds nothing recorded.
FrameKeyboard ==
    /\ pc_c = "rest"
    /\ rx_alive
    /\ app_keymap = None
    /\ keys_down = {}
    /\ pc_c' = "bellows"
    /\ acall' = [op |-> "handle_keyboard"]
    /\ UNCHANGED <<slotVars, last_sample_age_sec, histVars, chanVars, now, prodVars>>
    /\ UNCHANGED <<active, bellows_a, app_keymap, keymap_error, audio_some,
                   audio_error, audio_enabled, fake_enabled, press_ret, last_update>>
    /\ UNCHANGED <<keyVars, bellowsVars>>

\* A variant for C23: the real input stamps the sample with the instant of
\* the frame.
RealInputInstantNow(s, n) == InstantOf(n)

\* update_bellows_real_input (app.rs:215): the instant passed to update is
\* the sample's capture time, not the time of the frame.
RealInputInstant(s, n) == InstantOf(s.t)

\* update_bellows (app.rs:192-216): the fake input calls update with the
\* sine's angle at Instant::now(), the real input calls it with the latest
\* sample, if there is one.
FrameBellows ==
    /\ pc_c = "bellows"
    /\ pc_c' = "audio"
    /\ IF fake_enabled
       THEN LET theta == FakeAngle(now)
                r     == update(Bellows, theta, InstantOf(now))
            IN    /\ SetBellows(r.st)
                  /\ bellows_out' = r.out
                  /\ bcall' = [op |-> "update", theta_deg |-> theta,
                               t |-> InstantOf(now), pre |-> Bellows]
                  /\ acall' = [op |-> "update_bellows", input |-> "fake",
                               out |-> Some(r.out)]
       ELSE IF latest_sample = None
       THEN /\ UNCHANGED bellowsVars
            /\ acall' = [op |-> "update_bellows", input |-> "real", out |-> None]
       ELSE LET s == latest_sample[1]
                t == RealInputInstant(s, now)
                r == update(Bellows, s.theta_deg, t)
            IN /\ SetBellows(r.st)
               /\ bellows_out' = r.out
               /\ bcall' = [op |-> "update", theta_deg |-> s.theta_deg,
                            t |-> t, pre |-> Bellows]
               /\ acall' = [op |-> "update_bellows", input |-> "real",
                            out |-> Some(r.out)]
    /\ UNCHANGED <<slotVars, last_sample_age_sec, histVars, chanVars, now, prodVars>>
    /\ last_update' = [sample  |-> latest_sample,
                       stalled |-> /\ ~fake_enabled
                                   /\ latest_sample # None
                                   /\ latest_sample = last_update.sample]
    /\ UNCHANGED <<active, bellows_a, app_keymap, keymap_error, audio_some,
                   audio_error, audio_enabled, fake_enabled, press_ret>>
    /\ UNCHANGED keyVars

\* update_audio_from_bellows (app.rs:218-230)
FrameAudio ==
    /\ pc_c = "audio"
    /\ pc_c' = "draw"
    /\ IF audio_some
       THEN LET x == BellowsForAudio(audio_enabled, bellows_out)
            IN /\ bellows_a' = set_bellows(x)
               /\ acall' = [op |-> "update_audio", value |-> Some(x)]
       ELSE /\ bellows_a' = bellows_a
            /\ acall' = [op |-> "update_audio", value |-> None]
    /\ UNCHANGED <<slotVars, last_sample_age_sec, histVars, chanVars, now, prodVars>>
    /\ UNCHANGED <<active, app_keymap, keymap_error, audio_some, audio_error,
                   audio_enabled, fake_enabled, press_ret, last_update>>
    /\ UNCHANGED <<keyVars, bellowsVars>>

\* The widgets of the frame (app.rs:96-118), of which the user clicks at most
\* one: the checkbox "Enable audio output" (app.rs:152), the checkbox "Use
\* fake angle input" (app.rs:233) or the button "Reset bellows state"
\* (app.rs:263-266).
FrameDraw ==
    /\ pc_c = "draw"
    /\ pc_c' = "drain"
    /\ \E click \in {"none", "audio_enabled", "fake_enabled", "reset"} :
          /\ acall' = [op |-> "draw", click |-> click]
          /\ audio_enabled' = IF click = "audio_enabled" THEN ~audio_enabled
                              ELSE audio_enabled
          /\ fake_enabled' = IF click = "fake_enabled" THEN ~fake_enabled
                             ELSE fake_enabled
          /\ IF click = "reset"
             THEN /\ SetBellows(reset(Bellows))
                  /\ bellows_out' = DefaultOutput
                  /\ bcall' = [op |-> "reset", pre |-> Bellows]
             ELSE UNCHANGED bellowsVars
    /\ UNCHANGED <<slotVars, last_sample_age_sec, histVars, chanVars, now, prodVars>>
    /\ UNCHANGED <<active, bellows_a, app_keymap, keymap_error, audio_some,
                   audio_error, press_ret, last_update>>
    /\ UNCHANGED keyVars

-----------------------------------------------------------------------------
(* Initial states: the state after main() has created the channel and      *)
(* HarmoniumApp::new has run (app.rs:39-80).                               *)

InitRelay(p) ==
    /\ now = 0
    /\ chan = <<>>
    /\ rx_alive = TRUE
    /\ pc_p = p
    /\ p_msg = None
    /\ n_stream = 0
    /\ pc_c = "drain"
    /\ sensor_status = StartingText
    /\ sensor_error = None
    /\ latest_sample = None
    /\ last_sample_age_sec = 0
    /\ sent = <<>>
    /\ folded = <<>>

InitKeys ==
    /\ keys_down = {}
    /\ key_to_note = EmptyMap
    /\ call = [op |-> "new"]
    /\ ret = None

InitBellows ==
    /\ params = DefaultParams
    /\ prev_theta_deg = NewBellows(DefaultParams).prev_theta_deg
    /\ prev_t = NewBellows(DefaultParams).prev_t
    /\ speed_smooth = NewBellows(DefaultParams).speed_smooth
    /\ a = NewBellows(DefaultParams).a
    /\ bellows_out = DefaultOutput
    /\ bcall = [op |-> "new"]

\* AudioEngine::new succeeded (audio.rs:36-48).
InitAudio ==
    /\ active = {}
    /\ bellows_a = 0
    /\ audio_some = TRUE
    /\ audio_error = None

\* The other fields HarmoniumApp::new sets, without a key map.
InitAppFields ==
    /\ app_keymap = None
    /\ keymap_error = Some("Failed to read keymap file")
    /\ audio_enabled = TRUE
    /\ fake_enabled = TRUE
    /\ acall = [op |-> "new"]
    /\ press_ret = [k \in Keys |-> NoPress]
    /\ last_update = NoUpdate

InitApp == InitAudio /\ InitAppFields

InitSensor == InitRelay("rt") /\ InitKeys /\ InitBellows /\ InitApp
NextSensor ==
    \/ RuntimeNew \/ DeviceOpen \/ SendRuntimeError \/ SendLoopError
    \/ SendStatus \/ StreamNext \/ SendSample
    \/ DrainRecv \/ DrainEmpty \/ FrameRest \/ AppExit \/ Tick
SpecSensor == InitSensor /\ [][NextSensor]_vars
SpecSensorFair == SpecSensor /\ WF_vars(ConsumerStep)

InitDrain == InitRelay("env") /\ InitKeys /\ InitBellows /\ InitApp
NextDrain == EnvSend \/ DrainRecv \/ DrainEmpty \/ FrameRest \/ Tick
SpecDrain == InitDrain /\ [][NextDrain]_vars

InitKeysSpec == InitRelay("env") /\ InitKeys /\ InitBellows /\ InitApp
NextKeys == KeyDown \/ KeyUp
SpecKeys == InitKeysSpec /\ [][NextKeys]_vars

InitBellowsSpec == InitRelay("env") /\ InitKeys /\ InitBellows /\ InitApp
NextBellows == Update \/ Reset
SpecBellows == InitBellowsSpec /\ [][NextBellows]_vars

InitBellowsTuned == InitRelay("env") /\ InitKeys /\ InitBellows /\ InitApp
NextBellowsTuned == Update \/ Reset \/ SetParams
SpecBellowsTuned == InitBellowsTuned /\ [][NextBellowsTuned]_vars

\* HarmoniumApp::new with either result of loading key-map.json and of
\* creating the audio engine (app.rs:41-54).
InitAppLoaded ==
    /\ active = {}
    /\ bellows_a = 0
    /\ audio_some \in BOOLEAN
    /\ audio_error = IF audio_some THEN None ELSE Some("Audio output init failed")
    /\ \/ \E m \in MapFiles : app_keymap = Some(m) /\ keymap_error = None
       \/ \E e \in KeymapErrors : app_keymap = None /\ keymap_error = Some(e)
    /\ audio_enabled = TRUE
    /\ fake_enabled = TRUE
    /\ acall = [op |-> "new"]
    /\ press_ret = [k \in Keys |-> NoPress]
    /\ last_update = NoUpdate

InitAppKeys == InitRelay("env") /\ InitKeys /\ InitBellows /\ InitAppLoaded
NextAppKeys == AppKeyPress \/ AppKeyRelease \/ ReloadKeymap \/ ToggleAudioEnabled
SpecAppKeys == InitAppKeys /\ [][NextAppKeys]_vars

NextApp == NextAppKeys \/ ClickStopAll
SpecApp == InitAppKeys /\ [][NextApp]_vars

\* The app without a key map, frame by frame, with the sensor thread in its
\* sample loop.  The audio engine may have failed to start.
InitFrame ==
    /\ InitRelay("next") /\ InitKeys /\ InitBellows /\ InitAppFields
    /\ active = {}
    /\ bellows_a = 0
    /\ audio_some \in BOOLEAN
    /\ audio_error = IF audio_some THEN None ELSE Some("Audio output init failed")
NextFrame ==
    \/ FrameSensorSend \/ DrainRecv \/ DrainEmpty
    \/ FrameKeyboard \/ FrameBellows \/ FrameAudio \/ FrameDraw \/ Tick
SpecFrame == InitFrame /\ [][NextFrame]_vars

InitAudioSpec == InitRelay("env") /\ InitKeys /\ InitBellows /\ InitApp
NextAudio == AudioNoteOn \/ AudioNoteOff \/ AudioStopAll \/ AudioSetBellows
SpecAudio == InitAudioSpec /\ [][NextAudio]_vars

-----------------------------------------------------------------------------
(* Helpers of the properties.                                              *)

IsPrefix(s, t) == Len(s) <= Len(t) /\ SubSeq(t, 1, Len(s)) = s

\* The last message of the given kind in a sequence, as an Option.
LastOfKind(seq, kind) ==
    LET I == {i \in 1..Len(seq) : seq[i].kind = kind}
    IN IF I = {} THEN None
       ELSE Some(seq[CHOOSE i \in I : \A j \in I : j <= i])

-----------------------------------------------------------------------------
(* The relay: drain_sensor_messages.                                       *)

\* C1: latest wins.  Whatever messages the drain has consumed so far, over
\* any number of drains, the status slot holds the text of the last Status
\* message consumed (the initial text when there was none) and the sample
\* slot holds the last Sample consumed (None when there was none).
C1_LatestWins ==
    /\ sensor_status = (IF LastOfKind(folded, "Status") = None THEN StartingText
                        ELSE LastOfKind(folded, "Status")[1].text)
    /\ latest_sample = (IF LastOfKind(folded, "Sample") = None THEN None
                        ELSE Some(LastOfKind(folded, "Sample")[1].sample))

\* The example of the specification: Status("A"), Status("B"), Sample(S1)
\* drained, with status "B" and sample S1 as the result.
C1_Witness ==
    /\ folded = <<StatusMsg("A"), StatusMsg("B"), SampleMsg(10, 0)>>
    /\ pc_c = "rest"
    /\ sensor_status = "B"
    /\ latest_sample = Some([theta_deg |-> 10, t |-> 0])

\* The message a step of the drain has just folded.
JustFolded == folded'[Len(folded')]

-----------------------------------------------------------------------------
(* The relay: the sensor thread composed with the frame loop.              *)

\* C3: ordered exactly-once delivery.  The messages folded are always a
\* prefix of the messages sent, and while the receiver lives the messages
\* sent are exactly those folded followed by those still queued: nothing is
\* folded twice, out of order, or without having been sent.  While frames
\* keep occurring, the n-th message sent is eventually folded.
C3_OrderedExactlyOnce ==
    /\ [](IsPrefix(folded, sent) /\ (rx_alive => sent = folded \o chan))
    /\ \A n \in 1..(MaxSamples + 1) :
          (Len(sent) >= n) ~> (Len(folded) >= n \/ ~rx_alive)

\* Every message of a full run was sent and folded: the status and the
\* samples, in the order of their sending.
C3_Witness ==
    /\ Len(sent) = MaxSamples + 1
    /\ folded = sent
    /\ folded[1].kind = "Status"
    /\ folded[2] # folded[3]

\* C4: the producer's send never blocks.  Whenever the sensor thread is at
\* one of its sends, the send step is enabled, however many messages are
\* queued and whatever the consumer is doing.
C4_SendNeverBlocks == ProducerAtSend => ENABLED ProducerSendStep

\* The thread is at a send with every earlier message still queued, the
\* consumer not having folded anything.
C4_Witness ==
    /\ pc_p = "send_sample"
    /\ Len(chan) = MaxSamples
    /\ folded = <<>>

\* C5: the drain never blocks.  In a drain, a consumer step is always
\* enabled; a step taken on a non-empty channel folds the oldest pending
\* message and stays in the loop; a step taken on an empty channel returns
\* and leaves the three slots and the channel as they were; and the drain
\* returns only when it found the channel empty.
C5_DrainNeverBlocks ==
    /\ [](pc_c = "drain" /\ rx_alive => ENABLED (DrainRecv \/ DrainEmpty))
    /\ [][/\ (pc_c = "drain" /\ chan # <<>> /\ consVars' # consVars) =>
                 /\ folded' = Append(folded, Head(chan))
                 /\ pc_c' = "drain"
          /\ (pc_c = "drain" /\ chan = <<>> /\ consVars' # consVars) =>
                 /\ pc_c' = "rest"
                 /\ UNCHANGED <<slotVars, chan, folded>>
          /\ (pc_c = "drain" /\ pc_c' = "rest") => chan = <<>>
       ]_vars

\* A drain found nothing pending and returned with the slots at their
\* initial values; the producer sent only afterwards.
C5_Witness ==
    /\ pc_c = "rest"
    /\ folded = <<>>
    /\ Len(chan) >= 1
    /\ sensor_status = StartingText
    /\ sensor_error = None
    /\ latest_sample = None

-----------------------------------------------------------------------------
(* PressedKeys.                                                            *)

\* C6: every key that has an entry in key_to_note is in keys_down.
C6_MappedKeysAreDown == DOMAIN key_to_note \subseteq keys_down

\* A key that had a note was released and is in neither collection, while
\* the other key is still down with its note.
C6_Witness ==
    /\ call.op = "key_up"
    /\ call.had_note # None
    /\ call.ch \notin keys_down \cup DOMAIN key_to_note
    /\ DOMAIN key_to_note # {}
    /\ DOMAIN key_to_note = keys_down

\* C7: key_down on a key that is already down returns nothing and leaves
\* keys_down and key_to_note unchanged, whatever map the call is given.
C7_RepeatSuppressed ==
    [][(call'.op = "key_down" /\ call'.ch \in keys_down) =>
          /\ ret' = None
          /\ UNCHANGED <<keys_down, key_to_note>>
    ]_vars

\* A repeated press came with a map that gives the key another note than
\* the one recorded: nothing was returned and the recorded note stayed.
C7_Witness ==
    /\ call.op = "key_down"
    /\ call.was_down
    /\ call.had_note # None
    /\ call.keymap[call.ch] # None
    /\ call.keymap[call.ch] # call.had_note
    /\ ret = None
    /\ MapGet(key_to_note, call.ch) = call.had_note

\* C8: key_down on a key that is not down adds the key to keys_down; with a
\* note in the map it records key -> note and returns the note, without one
\* it returns nothing and records nothing.
C8_FirstPress ==
    [][(call'.op = "key_down" /\ call'.ch \notin keys_down) =>
          /\ keys_down' = keys_down \cup {call'.ch}
          /\ IF call'.keymap[call'.ch] # None
             THEN /\ ret' = call'.keymap[call'.ch]
                  /\ key_to_note' = MapInsert(key_to_note, call'.ch, call'.keymap[call'.ch][1])
             ELSE /\ ret' = None
                  /\ key_to_note' = key_to_note
                  /\ call'.ch \notin DOMAIN key_to_note'
    ]_vars

\* A first press without a note left the key down and unmapped, beside a
\* key that is down with its note.
C8_Witness ==
    /\ call.op = "key_down"
    /\ ~call.was_down
    /\ call.keymap[call.ch] = None
    /\ ret = None
    /\ call.ch \in keys_down \ DOMAIN key_to_note
    /\ DOMAIN key_to_note # {}

\* C9: key_up on a key without a recorded note (never pressed, already
\* released, or pressed while unmapped) returns nothing; on a key that is
\* not down it also leaves the tracker unchanged; and a key_up directly
\* after a key_up of the same key returns nothing.
C9_KeyUpWithoutNote ==
    [][call'.op = "key_up" =>
          /\ call'.ch \notin DOMAIN key_to_note => ret' = None
          /\ call'.ch \notin keys_down =>
                ret' = None /\ UNCHANGED <<keys_down, key_to_note>>
          /\ (call.op = "key_up" /\ call.ch = call'.ch) => ret' = None
    ]_vars

\* A key that was down without a note was released: nothing was returned,
\* and the other key keeps its note.
C9_Witness ==
    /\ call.op = "key_up"
    /\ call.was_down
    /\ call.had_note = None
    /\ ret = None
    /\ call.ch \notin keys_down
    /\ DOMAIN key_to_note # {}

-----------------------------------------------------------------------------
(* BellowsState.                                                           *)

\* C10: with the default parameters, after every update the stored
\* amplitude and the amplitude returned are within [0, 1].
C10_AmplitudeBounded ==
    /\ 0 <= a /\ a <= FX
    /\ 0 <= bellows_out.a /\ bellows_out.a <= FX

\* Fast motion drove the target to 1 and the amplitude most of the way
\* there, and a later update brought it down again without reaching 0.
C10_Witness ==
    /\ bcall.op = "update"
    /\ bellows_out.dt_sec > 1
    /\ bellows_out.a_target < bellows_out.a
    /\ bellows_out.a > FX \div 2
    /\ bellows_out.a < FX

\* C11: the cold-start frame.  A call of update made while no previous
\* sample is stored returns zero dt, zero angular velocity and zero raw
\* speed, returns the stored amplitude, records the given angle and instant
\* as the previous sample, and leaves the smoothed speed and the amplitude as
\* they were; on an engine that has never tracked the amplitude returned is 0.
C11_ColdStartFrame ==
    [][(bcall'.op = "update" /\ (prev_theta_deg = None \/ prev_t = None)) =>
          /\ bellows_out'.dt_sec = 0
          /\ bellows_out'.omega_deg_per_s = 0
          /\ bellows_out'.speed_raw = 0
          /\ bellows_out'.a = a
          /\ bellows_out'.theta_deg = bcall'.theta_deg
          /\ prev_theta_deg' = Some(bcall'.theta_deg)
          /\ prev_t' = Some(bcall'.t)
          /\ UNCHANGED <<speed_smooth, a, params>>
          /\ bcall.op = "new" => bellows_out'.a = 0
    ]_vars

\* A cold-start frame at a nonzero angle and a later instant: the sample is
\* recorded and the output carries no motion.
C11_Witness ==
    /\ bcall.op = "update"
    /\ bcall.pre.prev_t = None
    /\ bcall.theta_deg = 8
    /\ bcall.t > 0
    /\ prev_theta_deg = Some(8)
    /\ prev_t = Some(bcall.t)
    /\ bellows_out.omega_deg_per_s = 0

\* The calls update can be given.
UpdateCalls == Angles \X Times

\* C12: reset equivalence.  After any sequence of updates, reset leaves the
\* parameters untouched and puts the engine in the state of an engine newly
\* constructed with the same parameters; and in every state a reset has
\* produced, the engine and a new engine with the same parameters return
\* the same outputs and reach the same states over any two further updates
\* (the cold-start frame, then a tracking or a guarded frame).
C12_ResetEquivalence ==
    /\ [][bcall'.op = "reset" =>
             /\ params' = params
             /\ Bellows' = NewBellows(params)
        ]_vars
    /\ [](bcall.op = "reset" =>
             \A c1 \in UpdateCalls :
                LET r1 == update(Bellows, c1[1], c1[2])
                    n1 == update(NewBellows(params), c1[1], c1[2])
                IN /\ r1 = n1
                   /\ \A c2 \in UpdateCalls :
                         update(r1.st, c2[1], c2[2]) = update(n1.st, c2[1], c2[2]))

\* reset was called on an engine that was tracking with a nonzero amplitude
\* and a nonzero smoothed speed.
C12_Witness ==
    /\ bcall.op = "reset"
    /\ bcall.pre.prev_t # None
    /\ bcall.pre.a > 0
    /\ bcall.pre.speed_smooth > 0
    /\ a = 0
    /\ speed_smooth = 0
    /\ prev_t = None
    /\ prev_theta_deg = None

\* C18: the non-advancing timestamp guard.  A call of update on an engine
\* that holds a previous sample, at an instant no more than 1 microsecond
\* after the previous one (equal and earlier instants included), returns
\* zero dt, zero angular velocity and zero raw speed together with the stored
\* amplitude and smoothed speed, and leaves the whole engine as it was.
C18_TimestampGuard ==
    [][(/\ bcall'.op = "update"
        /\ prev_theta_deg # None /\ prev_t # None
        /\ bcall'.t <= prev_t[1] + 1) =>
          /\ bellows_out'.dt_sec = 0
          /\ bellows_out'.omega_deg_per_s = 0
          /\ bellows_out'.speed_raw = 0
          /\ bellows_out'.a = a
          /\ bellows_out'.speed_smooth = speed_smooth
          /\ UNCHANGED <<prev_theta_deg, prev_t, speed_smooth, a, params>>
    ]_vars

\* An engine with nonzero amplitude and smoothed speed was updated with
\* another angle at an earlier instant: the output carries the stored values
\* and the previous sample stayed.
C18_Witness ==
    /\ bcall.op = "update"
    /\ bcall.pre.prev_t # None
    /\ bcall.t < bcall.pre.prev_t[1]
    /\ bcall.pre.prev_theta_deg # Some(bcall.theta_deg)
    /\ Bellows = bcall.pre
    /\ a > 0
    /\ speed_smooth > 0
    /\ bellows_out.a = a
    /\ bellows_out.speed_smooth = speed_smooth
    /\ bellows_out.omega_deg_per_s = 0

\* The guard applied at a gap of exactly 1 microsecond.
C18_WitnessEdge ==
    /\ bcall.op = "update"
    /\ bcall.pre.prev_t # None
    /\ bcall.t = bcall.pre.prev_t[1] + 1
    /\ Bellows = bcall.pre

\* C19: the asymmetric envelope does not overshoot.  On every update that
\* passes the dt guard, the attack time is the one used when the target is
\* above the stored amplitude and the release time otherwise; when the time
\* used is <= 0 the new amplitude is the target, otherwise the new amplitude
\* lies between the old amplitude and the target, both included.
C19_EnvelopeNoOvershoot ==
    [][(bcall'.op = "update" /\ bellows_out'.dt_sec > 1) =>
          LET target   == bellows_out'.a_target
              going_up == target > a
              ms       == IF going_up THEN params.attack_ms ELSE params.release_ms
          IN /\ bellows_out'.a = a'
             /\ IF ms <= 0 THEN a' = target
                ELSE IF going_up THEN a <= a' /\ a' <= target
                     ELSE target <= a' /\ a' <= a
    ]_vars

\* With an attack time of 0 and a release time above 0, the amplitude jumped
\* to a target above it, and a later update with the target below blended
\* it to a value strictly between the two.
C19_Witness ==
    /\ bcall.op = "update"
    /\ bellows_out.dt_sec > 1
    /\ params.attack_ms = 0
    /\ params.release_ms > 0
    /\ bellows_out.a_target < a
    /\ a < bcall.pre.a
    /\ bcall.pre.a = FX

\* With an attack time of 0 the amplitude jumped up to a target strictly
\* between 0 and 1.
C19_WitnessJump ==
    /\ bcall.op = "update"
    /\ bellows_out.dt_sec > 1
    /\ params.attack_ms = 0
    /\ bcall.pre.a < a
    /\ a = bellows_out.a_target
    /\ a < FX

-----------------------------------------------------------------------------
(* Sensor failures.                                                        *)

\* The sensor thread is about to report a failure.
ProducerFailed == pc_p \in {"send_rt_err", "send_loop_err"}

\* The text of the failure being reported.
FailureText == IF pc_p = "send_rt_err" THEN RuntimeErrText ELSE LoopErrText

\* C16: sensor failures are values.  When the runtime cannot start or the
\* sensor loop returns an error (the device cannot be opened), the thread's
\* next step puts an Error message with the failure's text on the channel
\* (while the receiver lives); every drain that returns after an Error was
\* sent leaves the error slot set to its text, and once the Error is sent
\* the slot is eventually set while frames keep occurring; and the frame
\* loop always has a step to take, whatever the sensor thread has done.
C16_SensorFailureIsValue ==
    /\ [][(ProducerFailed /\ pc_p' # pc_p /\ rx_alive) =>
              /\ chan' = Append(chan, ErrorMsg(FailureText))
              /\ sent' = Append(sent, ErrorMsg(FailureText))
              /\ UNCHANGED consVars
         ]_vars
    /\ [][(pc_c = "drain" /\ pc_c' = "rest") =>
              \A i \in 1..Len(sent) :
                  sent[i].kind = "Error" => sensor_error' = Some(sent[i].text)
         ]_vars
    /\ \A e \in {RuntimeErrText, LoopErrText} :
          (sent = <<ErrorMsg(e)>>) ~> (sensor_error = Some(e) \/ ~rx_alive)
    /\ [](rx_alive => ENABLED ConsumerStep)

\* The device could not be opened; the Error was folded by a drain, and a
\* later frame has begun its own drain with the error still shown.
C16_Witness ==
    /\ pc_p = "done"
    /\ sent = <<ErrorMsg(LoopErrText)>>
    /\ folded = sent
    /\ chan = <<>>
    /\ sensor_error = Some(LoopErrText)
    /\ sensor_status = StartingText
    /\ pc_c = "drain"
    /\ rx_alive

-----------------------------------------------------------------------------
(* AudioEngine.                                                            *)

\* C13: the sink is idempotent.  note_on of a note that is active returns Ok
\* and leaves the map as it was, the note's sink included (no second sink);
\* note_off of a note that is not active leaves the map as it was; and after
\* any calls of note_on, note_off and stop_all the map holds at most one
\* entry per note name.
C13_SinkIdempotence ==
    /\ [][(acall'.op = "note_on" /\ acall'.note \in ActiveNotes(active)) =>
              acall'.result = OkText /\ active' = active
         ]_vars
    /\ [][(acall'.op = "note_off" /\ acall'.note \notin ActiveNotes(active)) =>
              active' = active
         ]_vars
    /\ [](\A e1 \in active, e2 \in active : e1.note = e2.note => e1 = e2)

\* note_on was called for a note that was active beside another one: both
\* entries are there, with their sinks.
C13_Witness ==
    /\ acall.op = "note_on"
    /\ acall.was_active
    /\ acall.result = OkText
    /\ Cardinality(active) = 2
    /\ Cardinality(ActiveNotes(active)) = 2

-----------------------------------------------------------------------------
(* HarmoniumApp: keyboard and audio.                                       *)

\* C14: a note that fails to start is isolated.  When the note_on of a key
\* press fails, the Result carries one of note_on's errors, the map of
\* active notes is as it was (the note is not added, every other note
\* stays), the app only stores the error text in audio_error, the key is
\* tracked as down with its note all the same, and nothing of the relay or
\* the bellows is touched; the keyboard handler can always take the next
\* event.
C14_NoteFailureIsolated ==
    /\ [][(/\ acall'.op = "key_press"
            /\ acall'.note_on # None
            /\ acall'.note_on # Some(OkText)) =>
              /\ acall'.note_on[1] \in NoteOnErrors
              /\ active' = active
              /\ acall'.note[1] \notin ActiveNotes(active')
              /\ audio_error' = acall'.note_on
              /\ keys_down' = keys_down \cup {acall'.ch}
              /\ MapGet(key_to_note', acall'.ch) = acall'.note
              /\ UNCHANGED <<relayVars, bellowsVars, bellows_a, app_keymap,
                             audio_some, audio_enabled>>
         ]_vars
    /\ [](ENABLED AppKeyPress /\ ENABLED AppKeyRelease)

\* One key is held whose note failed to start, the error is shown, and the
\* press of another key has started another note.
C14_Witness ==
    /\ acall.op = "key_press"
    /\ acall.note_on = Some(OkText)
    /\ acall.note # None
    /\ ActiveNotes(active) = {acall.note[1]}
    /\ audio_error # None
    /\ \E k \in keys_down :
          /\ k # acall.ch
          /\ press_ret[k].note # None
          /\ press_ret[k].note # acall.note
          /\ press_ret[k].on = audio_error

\* The notes whose start by a key press succeeded and whose key has not been
\* released since.
SustainedNotes ==
    {press_ret[k].note[1] :
        k \in {j \in Keys : press_ret[j].note # None /\ press_ret[j].on = Some(OkText)}}

\* C15: note sustain.  Once the press of a key has started note N (key_down
\* returned N and note_on(N) returned Ok), N is in the sink's active map in
\* every later state until that key is released, whatever other keys are
\* pressed or released, whatever key map is loaded and whether audio output
\* is enabled or not.
C15_NoteSustain ==
    SustainedNotes \subseteq ActiveNotes(active)

\* C17: press and release pair up across key-map changes.  What key_up(k)
\* returns is what the key_down(k) of the press being released returned (a
\* key_down on a key that is already down is a suppressed repeat, not a
\* press): the note recorded then, or nothing, whatever key map the app holds
\* at the release.  The note_off of a release names the note the press
\* passed to note_on.
C17_PressReleasePairing ==
    [][acall'.op = "key_release" =>
          /\ acall'.note = press_ret[acall'.ch].note
          /\ acall'.note_off = (audio_some /\ press_ret[acall'.ch].note # None)
          /\ acall'.note_off =>
                active' = note_off(active, press_ret[acall'.ch].note[1])
          /\ ~acall'.note_off => active' = active
          /\ acall'.ch \notin keys_down' \cup DOMAIN key_to_note'
    ]_vars

\* A key was pressed with a note that started, the key map was then replaced
\* by one that gives the key another note, and the release returned and
\* stopped the note of the press.
C17_Witness ==
    /\ acall.op = "key_release"
    /\ acall.note # None
    /\ acall.held.on = Some(OkText)
    /\ acall.note_off
    /\ app_keymap # None
    /\ app_keymap[1][acall.ch] # None
    /\ app_keymap[1][acall.ch] # acall.note
    /\ acall.note[1] \notin ActiveNotes(active)

\* The same with the key map removed by a failed reload.
C17_WitnessNoMap ==
    /\ acall.op = "key_release"
    /\ acall.note # None
    /\ acall.note_off
    /\ app_keymap = None

-----------------------------------------------------------------------------
(* HarmoniumApp::ui: the frame.                                            *)

\* The steps of a frame in their order.
FrameOrder ==
    {<<"drain", "rest">>, <<"rest", "bellows">>, <<"bellows", "audio">>,
     <<"audio", "draw">>, <<"draw", "drain">>}

\* The steps of a frame run in the order drain, keyboard, bellows, audio,
\* widgets; the drain returns with every message sent so far folded; and in
\* real-input mode the bellows step calls update with the newest sample
\* folded, if there is one.
FrameOrderAndInput ==
    /\ pc_c' # pc_c => <<pc_c, pc_c'>> \in FrameOrder
    /\ (pc_c = "drain" /\ pc_c' = "rest") => folded = sent
    /\ (pc_c = "bellows" /\ pc_c' # pc_c) =>
          /\ acall'.op = "update_bellows"
          /\ folded' = folded
          /\ acall'.input = (IF fake_enabled THEN "fake" ELSE "real")
          /\ acall'.input = "real" =>
                IF LastOfKind(folded, "Sample") = None
                THEN acall'.out = None /\ UNCHANGED bellowsVars
                ELSE LET s == LastOfKind(folded, "Sample")[1].sample
                     IN /\ bcall'.op = "update"
                        /\ bcall'.theta_deg = s.theta_deg
                        /\ bcall'.t = InstantOf(s.t)
                        /\ acall'.out = Some(bellows_out')
          /\ acall'.input = "fake" =>
                /\ bcall'.op = "update"
                /\ bcall'.t = InstantOf(now)
                /\ acall'.out = Some(bellows_out')

\* C20 as stated: the steps of every frame run in the order drain,
\* keyboard, bellows, audio; the bellows update of a frame uses the newest
\* sample the frame's drain delivered; and the value passed to set_bellows in
\* a frame is the amplitude that frame's update computed, or 0 when audio
\* output is disabled.
C20_FramePipeline_AsStated ==
    [][/\ FrameOrderAndInput
       /\ (pc_c = "audio" /\ pc_c' # pc_c /\ acall'.value # None) =>
             /\ acall.op = "update_bellows"
             /\ IF audio_enabled
                THEN acall.out # None /\ acall'.value = Some(acall.out[1].a)
                ELSE acall'.value = Some(0)
    ]_vars

\* C20 amended: the same order and the same input of the bellows step; the
\* value passed to set_bellows in a frame is 0 when audio output is disabled
\* and otherwise the amplitude of the bellows output as it stands after the
\* frame's bellows step: the amplitude that frame's update returned when
\* update was called, and the amplitude of the output kept from before when
\* it was not (real-input mode with no sample received so far); without an
\* audio engine nothing is passed.
C20_FramePipeline ==
    [][/\ FrameOrderAndInput
       /\ (pc_c = "audio" /\ pc_c' # pc_c) =>
             /\ acall'.op = "update_audio"
             /\ acall.op = "update_bellows"
             /\ acall.out # None => bellows_out = acall.out[1]
             /\ acall.out = None => (~fake_enabled /\ latest_sample = None)
             /\ IF ~audio_some
                THEN acall'.value = None /\ bellows_a' = bellows_a
                ELSE /\ acall'.value =
                          Some(IF audio_enabled THEN bellows_out.a ELSE 0)
                     /\ bellows_a' = clamp01(acall'.value[1])
    ]_vars

\* A frame in real-input mode before any sample was received: update was
\* not called, and set_bellows was given the nonzero amplitude an earlier
\* frame computed from the fake input.
C20_Witness ==
    /\ acall.op = "update_audio"
    /\ ~fake_enabled
    /\ latest_sample = None
    /\ audio_enabled
    /\ acall.value # None
    /\ acall.value[1] > 0
    /\ bellows_a = acall.value[1]
    /\ bcall.op = "update"

\* A frame in real-input mode whose update used the second of two samples
\* folded, and whose amplitude was passed on.
C20_WitnessSample ==
    /\ acall.op = "update_audio"
    /\ ~fake_enabled
    /\ Len(folded) = 2
    /\ latest_sample = Some(folded[2].sample)
    /\ folded[1].sample.theta_deg # folded[2].sample.theta_deg
    /\ bcall.op = "update"
    /\ bcall.theta_deg = folded[2].sample.theta_deg
    /\ acall.value = Some(bellows_out.a)
    /\ bellows_out.a > 0

-----------------------------------------------------------------------------
(* The keyboard and the audio sink together.                               *)

\* PressedKeys::active_notes (keymap.rs:90-94): the notes recorded for the
\* keys that are held, as a set.
active_notes(k2n) == {k2n[k] : k \in DOMAIN k2n}

\* C21: no orphaned notes.  After any sequence of key presses and releases,
\* key-map reloads, toggles of the audio checkbox and clicks on "Stop all
\* notes", every note in the sink's active map is the note recorded for a
\* key that is held; a note whose recording keys have all been released is
\* not in the map.
C21_NoOrphanedNotes ==
    ActiveNotes(active) \subseteq active_notes(key_to_note)

\* A key was released and its note was stopped while the note of another
\* held key keeps sounding.
C21_Witness ==
    /\ acall.op = "key_release"
    /\ acall.note_off
    /\ acall.held.on = Some(OkText)
    /\ acall.note[1] \notin ActiveNotes(active)
    /\ active # {}
    /\ ActiveNotes(active) \subseteq active_notes(key_to_note)

\* A note keeps sounding after the key map that gave it was replaced by a
\* failed reload and the audio checkbox was cleared; its key is still held.
C21_WitnessReload ==
    /\ app_keymap = None
    /\ ~audio_enabled
    /\ active # {}
    /\ ActiveNotes(active) = active_notes(key_to_note)

-----------------------------------------------------------------------------
(* The sensor thread's protocol.                                           *)

\* The positions in a sequence of messages that hold a message of a kind.
PositionsOfKind(seq, kind) == {i \in 1..Len(seq) : seq[i].kind = kind}

\* C22: the producer's message protocol.  In every run of the sensor thread
\* at most one Status is sent and it comes before every Sample; at most one
\* Error is sent and nothing is sent after it; and in the composed system
\* the consumer's error slot, once set, keeps its value in every later step.
C22_ProducerProtocol ==
    /\ [](/\ Cardinality(PositionsOfKind(sent, "Status")) <= 1
          /\ \A i \in PositionsOfKind(sent, "Status") :
                \A j \in PositionsOfKind(sent, "Sample") : i < j
          /\ Cardinality(PositionsOfKind(sent, "Error")) <= 1
          /\ \A i \in PositionsOfKind(sent, "Error") : i = Len(sent))
    /\ [][sensor_error # None => sensor_error' = sensor_error]_vars

\* The device could not be opened: the one Error was sent, the drain set the
\* error slot, and a later frame has drained again with the slot still set.
C22_Witness ==
    /\ sent = <<ErrorMsg(LoopErrText)>>
    /\ pc_p = "done"
    /\ folded = sent
    /\ sensor_error = Some(LoopErrText)
    /\ pc_c = "rest"
    /\ now > 0

\* The device was opened: one Status, then samples, then the end of the
\* stream, with no Error at all.
C22_WitnessConnected ==
    /\ Len(sent) >= 3
    /\ sent[1].kind = "Status"
    /\ sent[Len(sent)].kind = "Sample"
    /\ pc_p = "done"
    /\ sensor_error = None

-----------------------------------------------------------------------------
(* The frame when the sensor delivers nothing new.                         *)

\* The steps of a frame that call update_bellows and
\* update_audio_from_bellows.
BellowsStep == pc_c = "bellows" /\ pc_c' = "audio"
AudioStep   == pc_c = "audio" /\ pc_c' = "draw"

\* C23 as stated: in real-input mode, on every frame that feeds the sample
\* the previous bellows update already saw, the engine state and the
\* amplitude reported to the sink are what they were on the previous frame;
\* without any sample update is not called and the last output is kept.
C23_StalledFreeze_AsStated ==
    [][/\ BellowsStep /\ last_update'.stalled => Bellows' = Bellows
       /\ AudioStep /\ last_update.stalled /\ audio_some => bellows_a' = bellows_a
       /\ BellowsStep /\ ~fake_enabled /\ latest_sample = None =>
              UNCHANGED <<Bellows, bellows_out, bcall>>
    ]_vars

\* C23: the stalled-sensor freeze.  In real-input mode, on every frame that
\* feeds the sample the previous bellows update already saw, with no click
\* on "Reset bellows state" since that update, update returns by its
\* timestamp guard: the engine state is unchanged, the output carries the
\* stored amplitude, and the amplitude reported to the sink is that stored
\* amplitude, or 0 while audio output is disabled.  Without any sample
\* update is not called and the last output is kept.
C23_StalledFreeze ==
    [][/\ BellowsStep /\ last_update'.stalled /\ prev_t # None =>
              /\ Bellows' = Bellows
              /\ bellows_out'.a = a
              /\ bellows_out'.dt_sec = 0
       /\ (/\ AudioStep /\ last_update.stalled /\ audio_some
           /\ bcall.op = "update" /\ bcall.pre.prev_t # None) =>
              /\ a = bcall.pre.a
              /\ bellows_a' = IF audio_enabled THEN a ELSE 0
       /\ BellowsStep /\ ~fake_enabled /\ latest_sample = None =>
              UNCHANGED <<Bellows, bellows_out, bcall>>
    ]_vars

\* A stalled frame of a tracking engine with a nonzero amplitude has gone
\* through its bellows and audio steps: the sink holds the same amplitude.
C23_Witness ==
    /\ pc_c = "draw"
    /\ last_update.stalled
    /\ bcall.op = "update"
    /\ bcall.pre.prev_t # None
    /\ bcall.pre.a > 0
    /\ audio_some /\ audio_enabled
    /\ a = bcall.pre.a
    /\ bellows_a = a
    /\ now > latest_sample[1].t

\* Real-input mode without any sample after the fake input has raised the
\* amplitude: update was not called and the output is kept.
C23_WitnessNoSample ==
    /\ acall.op = "update_bellows"
    /\ acall.input = "real"
    /\ acall.out = None
    /\ bellows_out.a > 0
    /\ bcall.op = "update"

-----------------------------------------------------------------------------
(* The two states of the bellows engine.                                   *)

\* The engine holds no previous sample.
Uninitialized == prev_theta_deg = None /\ prev_t = None
\* The engine holds a previous angle and a previous instant.
Tracking == prev_theta_deg # None /\ prev_t # None

\* C24: the two-state engine invariant.  In every reachable BellowsState the
\* previous angle and the previous instant are both present or both absent;
\* the engine is without them only when the last call on it was new or
\* reset; whenever it is without them the stored smoothed speed and
\* amplitude are 0, and so every cold-start frame returns amplitude 0.
C24_TwoStateEngine ==
    /\ [](/\ Uninitialized \/ Tracking
          /\ Uninitialized <=> bcall.op \in {"new", "reset"}
          /\ Uninitialized => speed_smooth = 0 /\ a = 0)
    /\ [][bcall'.op = "update" /\ ~Tracking =>
             bellows_out'.a = 0 /\ bellows_out'.speed_smooth = 0]_vars

\* A reset took a tracking engine with nonzero amplitude and smoothed speed
\* back to the state without a previous sample, while the output of the last
\* update still shows its amplitude.
C24_Witness ==
    /\ bcall.op = "reset"
    /\ bcall.pre.prev_theta_deg = Some(8)
    /\ bcall.pre.a > 0
    /\ bcall.pre.speed_smooth > 0
    /\ bellows_out.a > 0
    /\ Uninitialized
    /\ a = 0 /\ speed_smooth = 0

\* The cold-start frame at the latest instant returned amplitude 0 and left
\* the engine tracking.
C24_WitnessColdStart ==
    /\ bcall.op = "update"
    /\ bcall.pre.prev_t = None
    /\ bcall.pre.prev_theta_deg = None
    /\ bcall.t = TimeGrid[MaxTimes]
    /\ bellows_out.a = 0
    /\ Tracking

-----------------------------------------------------------------------------
(* The stored instant across the fake and the real input.                  *)

\* The step of a frame in which update_bellows calls update.
UpdateCall == BellowsStep /\ (fake_enabled \/ latest_sample # None)

\* C25: the stored instant is monotone.  Between two resets the engine's
\* stored previous instant never decreases; an update at an instant not
\* later than the stored one leaves the engine as it was, so a real sample
\* captured before the last update of the fake input is ignored; and the
\* first real sample accepted has its dt and its angular velocity computed
\* against the angle and the instant stored by the last accepted update,
\* and replaces them.
C25_MonotoneTimestamp ==
    [][/\ (prev_t # None /\ prev_t' # None) => prev_t'[1] >= prev_t[1]
       /\ (UpdateCall /\ Tracking /\ bcall'.t <= prev_t[1]) =>
              /\ Bellows' = Bellows
              /\ bellows_out'.omega_deg_per_s = 0
       /\ (UpdateCall /\ ~fake_enabled /\ Tracking /\ bcall'.t > prev_t[1] + 1) =>
              LET d  == bcall'.theta_deg - prev_theta_deg[1]
                  dt == bcall'.t - prev_t[1]
                  v  == MulDiv(MicrosPerSec * SPD, AbsVal(d), dt)
              IN /\ bcall'.theta_deg = latest_sample[1].theta_deg
                 /\ bcall'.t = InstantOf(latest_sample[1].t)
                 /\ bellows_out'.dt_sec = dt
                 /\ bellows_out'.omega_deg_per_s = (IF d >= 0 THEN v ELSE -v)
                 /\ prev_theta_deg' = Some(bcall'.theta_deg)
                 /\ prev_t' = Some(bcall'.t)
    ]_vars

\* After the fake input had stored a later instant, the real input fed a
\* sample captured earlier: the engine stayed as it was.
C25_Witness ==
    /\ acall.op = "update_bellows"
    /\ acall.input = "real"
    /\ bcall.op = "update"
    /\ bcall.pre.prev_t # None
    /\ bcall.t < bcall.pre.prev_t[1]
    /\ bcall.pre.prev_theta_deg[1] \notin Thetas
    /\ bcall.pre.a > 0
    /\ Bellows = bcall.pre

\* The first real sample later than the instant the fake input stored was
\* accepted: its velocity is measured from the fake input's last angle.
C25_WitnessAccepted ==
    /\ acall.op = "update_bellows"
    /\ acall.input = "real"
    /\ bcall.op = "update"
    /\ bcall.pre.prev_t # None
    /\ bcall.pre.prev_theta_deg[1] \notin Thetas
    /\ bcall.pre.prev_t[1] > 0
    /\ bcall.t > bcall.pre.prev_t[1]
    /\ prev_t = Some(bcall.t)
    /\ bellows_out.omega_deg_per_s > 0

-----------------------------------------------------------------------------
(* The end of the sensor thread.                                           *)

\* The positions of the sensor thread inside the loop of run_sensor_loop.
InSampleLoop == pc_p \in {"next", "send_sample"}

\* C26: the producer ends when the consumer is gone.  Once the Receiver has
\* been dropped, the attempt to send the next Sample fails and ends the
\* loop: nothing is put on the channel and the thread is done; from the loop
\* the thread never goes on to report an Error; when the upstream stream
\* ends the thread is done as well, with nothing sent at that step; and a
\* thread that is done stays done and sends nothing more.
C26_ProducerTermination ==
    [][/\ (pc_p = "send_sample" /\ pc_p' # pc_p /\ ~rx_alive) =>
              /\ pc_p' = "done"
              /\ sent' = sent
              /\ chan' = chan
       /\ (pc_p = "send_sample" /\ pc_p' # pc_p /\ rx_alive) =>
              /\ pc_p' = "next"
              /\ sent' = Append(sent, p_msg[1])
       /\ (pc_p = "next" /\ pc_p' = "done") =>
              /\ sent' = sent
              /\ chan' = chan
       /\ InSampleLoop => pc_p' \in {"next", "send_sample", "done"}
       /\ pc_p = "done" =>
              /\ pc_p' = "done"
              /\ sent' = sent
              /\ Len(chan') <= Len(chan)
    ]_vars

\* The window was closed while the thread was in its loop: the stream
\* yielded one more sample, its send failed, and the thread is done with no
\* Error sent and samples left in the stream.
C26_Witness ==
    /\ pc_p = "done"
    /\ ~rx_alive
    /\ sent # <<>>
    /\ sent[1].kind = "Status"
    /\ PositionsOfKind(sent, "Error") = {}
    /\ Cardinality(PositionsOfKind(sent, "Sample")) < n_stream
    /\ n_stream < MaxSamples

\* The stream ended while the app was running: every sample yielded was
\* sent and folded, the thread is done and no Error is shown.
C26_WitnessStreamEnd ==
    /\ pc_p = "done"
    /\ rx_alive
    /\ n_stream >= 2
    /\ Cardinality(PositionsOfKind(sent, "Sample")) = n_stream
    /\ Len(sent) = n_stream + 1
    /\ folded = sent
    /\ sensor_error = None

=============================================================================
